---- MODULE Spec2Model ----
(***************************************************************************)
(* Entity model (models.py) and record loader (extract.py) of the          *)
(* near-Earth-object database.                                             *)
(*                                                                         *)
(* Python str values are modelled as sequences of one-character strings,   *)
(* so that formatting and parsing are computed character by character.     *)
(* Python float values are modelled with a resolution of one hundredth:    *)
(* [k |-> "fin", h |-> n] is the number n/100, [k |-> "nan"] is            *)
(* not-a-number and [k |-> "inf"] is an infinity of sign h.                *)
(***************************************************************************)
EXTENDS Integers, Sequences, FiniteSets, TLC

\* ------------------------------------------------------------------------
\* Bounds of the model
\* ------------------------------------------------------------------------
MaxNeos == 2
MaxCas == 2
MaxRows == 2
MaxHundredths == 120

\* ------------------------------------------------------------------------
\* Python values
\* ------------------------------------------------------------------------
NaN == [k |-> "nan", h |-> 0]
Fin(n) == [k |-> "fin", h |-> n]
Inf(sign) == [k |-> "inf", h |-> sign]

\* float.__eq__: not-a-number is equal to nothing, itself included
FloatEq(a, b) == a.k # "nan" /\ b.k # "nan" /\ a = b

\* math.isnan
IsNan(a) == a.k = "nan"

\* A Python object of one of the built-in types, tagged with type(x)
PyNone == [t |-> "NoneType", s |-> <<>>, f |-> Fin(0), b |-> FALSE, i |-> 0]
PyStr(s) == [t |-> "str", s |-> s, f |-> Fin(0), b |-> FALSE, i |-> 0]
PyFloat(f) == [t |-> "float", s |-> <<>>, f |-> f, b |-> FALSE, i |-> 0]
PyBool(b) == [t |-> "bool", s |-> <<>>, f |-> Fin(0), b |-> b, i |-> 0]
PyInt(i) == [t |-> "int", s |-> <<>>, f |-> Fin(0), b |-> FALSE, i |-> i]

\* x == y of Python for the built-in values above
PyEq(x, y) ==
    IF x.t = "float" /\ y.t = "float" THEN FloatEq(x.f, y.f)
    ELSE x = y

\* x is y for the singletons None, True and False
PyIs(x, y) == x.t = y.t /\ x.t \in {"NoneType", "bool"} /\ x = y

\* ------------------------------------------------------------------------
\* Characters and numerals
\* ------------------------------------------------------------------------
Digits == <<"0", "1", "2", "3", "4", "5", "6", "7", "8", "9">>

IsDigit(c) == \E d \in 1..10 : Digits[d] = c

DigitVal(c) == (CHOOSE d \in 1..10 : Digits[d] = c) - 1

AllDigits(s) == \A p \in 1..Len(s) : IsDigit(s[p])

RECURSIVE NatStr(_)
NatStr(n) ==
    IF n < 10 THEN <<Digits[n + 1]>>
    ELSE NatStr(n \div 10) \o <<Digits[(n % 10) + 1]>>

RECURSIVE NatVal(_)
NatVal(s) ==
    IF s = <<>> THEN 0
    ELSE NatVal(SubSeq(s, 1, Len(s) - 1)) * 10 + DigitVal(s[Len(s)])

Abs(n) == IF n < 0 THEN -n ELSE n

Tail2(s) == SubSeq(s, 2, Len(s))

RECURSIVE LStrip(_)
LStrip(s) == IF s # <<>> /\ s[1] = " " THEN LStrip(Tail2(s)) ELSE s

RECURSIVE RStrip(_)
RStrip(s) ==
    IF s # <<>> /\ s[Len(s)] = " " THEN RStrip(SubSeq(s, 1, Len(s) - 1))
    ELSE s

\* position of the first occurrence of c in s, 0 when there is none
RECURSIVE IndexFrom(_, _, _)
IndexFrom(s, c, p) ==
    IF p > Len(s) THEN 0
    ELSE IF s[p] = c THEN p
    ELSE IndexFrom(s, c, p + 1)

Find(s, c) == IndexFrom(s, c, 1)

\* ------------------------------------------------------------------------
\* float <-> str
\* ------------------------------------------------------------------------
\* str(x) / repr(x) of a float: the shortest numeral that reads back as x
float_str(x) ==
    IF x.k = "nan" THEN <<"n", "a", "n">>
    ELSE IF x.k = "inf" THEN
        (IF x.h < 0 THEN <<"-">> ELSE <<>>) \o <<"i", "n", "f">>
    ELSE
        LET a == Abs(x.h)
            d1 == (a % 100) \div 10
            d2 == a % 10
        IN  (IF x.h < 0 THEN <<"-">> ELSE <<>>)
            \o NatStr(a \div 100) \o <<".">>
            \o (IF d2 = 0 THEN <<Digits[d1 + 1]>>
                ELSE <<Digits[d1 + 1], Digits[d2 + 1]>>)

\* the hundredths denoted by the fraction digits fr (digits past the second
\* are below the resolution of the model)
FracVal(fr) ==
    IF Len(fr) = 0 THEN 0
    ELSE IF Len(fr) = 1 THEN DigitVal(fr[1]) * 10
    ELSE DigitVal(fr[1]) * 10 + DigitVal(fr[2])

\* float(s) of a str: [ok |-> FALSE] stands for ValueError.  The grammar is
\* [spaces] [sign] (digits [. digits] | . digits | nan | inf | infinity)
\* [spaces], in lower case
float_parse(s) ==
    LET t == RStrip(LStrip(s))
        neg == t # <<>> /\ t[1] = "-"
        u == IF t # <<>> /\ t[1] \in {"-", "+"} THEN Tail2(t) ELSE t
        sg == IF neg THEN -1 ELSE 1
        dot == Find(u, ".")
        ip == IF dot = 0 THEN u ELSE SubSeq(u, 1, dot - 1)
        fr == IF dot = 0 THEN <<>> ELSE SubSeq(u, dot + 1, Len(u))
    IN  IF u = <<"n", "a", "n">> THEN [ok |-> TRUE, f |-> NaN]
        ELSE IF u = <<"i", "n", "f">>
                \/ u = <<"i", "n", "f", "i", "n", "i", "t", "y">>
            THEN [ok |-> TRUE, f |-> Inf(sg)]
        ELSE IF AllDigits(ip) /\ AllDigits(fr) /\ Len(ip) + Len(fr) > 0
            THEN [ok |-> TRUE,
                  f |-> Fin(sg * (NatVal(ip) * 100 + FracVal(fr)))]
        ELSE [ok |-> FALSE, f |-> NaN]

\* format(x, '.<nd>f') of a float, for nd >= 2
float_fixed(x, nd) ==
    IF x.k = "nan" THEN <<"n", "a", "n">>
    ELSE IF x.k = "inf" THEN
        (IF x.h < 0 THEN <<"-">> ELSE <<>>) \o <<"i", "n", "f">>
    ELSE
        LET a == Abs(x.h)
        IN  (IF x.h < 0 THEN <<"-">> ELSE <<>>)
            \o NatStr(a \div 100) \o <<".">>
            \o <<Digits[((a % 100) \div 10) + 1], Digits[(a % 10) + 1]>>
            \o [p \in 1..(nd - 2) |-> "0"]

\* repr(x) of None, a bool or a str without quotes and escapes
py_repr(x) ==
    IF x.t = "NoneType" THEN <<"N", "o", "n", "e">>
    ELSE IF x.t = "bool" THEN
        (IF x.b THEN <<"T", "r", "u", "e">> ELSE <<"F", "a", "l", "s", "e">>)
    ELSE <<"'">> \o x.s \o <<"'">>

\* ------------------------------------------------------------------------
\* helpers.py: calendar dates
\* ------------------------------------------------------------------------
NoTime == [year |-> 0, month |-> 0, day |-> 0, hour |-> 0, minute |-> 0]

IsLeap(y) == (y % 4 = 0 /\ y % 100 # 0) \/ y % 400 = 0

DaysIn(y, m) ==
    IF m = 2 THEN (IF IsLeap(y) THEN 29 ELSE 28)
    ELSE IF m \in {4, 6, 9, 11} THEN 30
    ELSE 31

Pad(n, w) == [p \in 1..(w - Len(NatStr(n))) |-> "0"] \o NatStr(n)

\* "YYYY-MM-DD HH:MM", the day with or without its leading zero;
\* [ok |-> FALSE] stands for the format error
cd_to_datetime(s) ==
    LET sp == Find(s, " ")
        dd == IF sp > 9 THEN SubSeq(s, 9, sp - 1) ELSE <<>>
        y == NatVal(SubSeq(s, 1, 4))
        m == NatVal(SubSeq(s, 6, 7))
        d == NatVal(dd)
        hh == NatVal(SubSeq(s, sp + 1, sp + 2))
        mi == NatVal(SubSeq(s, sp + 4, sp + 5))
        shaped ==
            /\ sp \in {10, 11}
            /\ Len(s) = sp + 5
            /\ s[5] = "-" /\ s[8] = "-" /\ s[sp + 3] = ":"
            /\ AllDigits(SubSeq(s, 1, 4)) /\ AllDigits(SubSeq(s, 6, 7))
            /\ AllDigits(dd)
            /\ AllDigits(SubSeq(s, sp + 1, sp + 2))
            /\ AllDigits(SubSeq(s, sp + 4, sp + 5))
    IN  IF shaped /\ y >= 1 /\ m \in 1..12 /\ d \in 1..DaysIn(y, m)
           /\ hh \in 0..23 /\ mi \in 0..59
        THEN [ok |-> TRUE,
              dt |-> [year |-> y, month |-> m, day |-> d,
                      hour |-> hh, minute |-> mi]]
        ELSE [ok |-> FALSE, dt |-> NoTime]

\* "YYYY-MM-DD HH:MM", without seconds
datetime_to_str(dt) ==
    Pad(dt.year, 4) \o <<"-">> \o Pad(dt.month, 2) \o <<"-">>
    \o Pad(dt.day, 2) \o <<" ">> \o Pad(dt.hour, 2) \o <<":">>
    \o Pad(dt.minute, 2)

\* ------------------------------------------------------------------------
\* models.py: NearEarthObject
\* ------------------------------------------------------------------------
\* the assertions written with isinstance: an int or a bool passes for a
\* diameter
NeoInitOk_isinstance(designation, name, diameter, hazardous) ==
    /\ designation.t = "str"
    /\ (name.t = "str" \/ PyIs(name, PyNone))
    /\ diameter.t \in {"float", "int", "bool"}
    /\ hazardous.t = "bool"

\* the four assertions of NearEarthObject.__init__
NeoInitOk(designation, name, diameter, hazardous) ==
    /\ designation.t = "str"
    /\ (name.t = "str" \/ PyIs(name, PyNone))
    /\ diameter.t = "float"
    /\ hazardous.t = "bool"

\* approaches taken from a default argument: one list for every object
NeoObject_shared(designation, name, diameter, hazardous, approaches) ==
    [designation |-> designation, name |-> name, diameter |-> diameter,
     hazardous |-> hazardous, approaches |-> 1]

\* the object NearEarthObject.__init__ leaves behind; approaches is the
\* identity of its list object
NeoObject(designation, name, diameter, hazardous, approaches) ==
    [designation |-> designation, name |-> name, diameter |-> diameter,
     hazardous |-> hazardous, approaches |-> approaches]

\* the test written `if self.name:`
fullname_truthy(self) ==
    IF self.name.t = "str" /\ self.name.s # <<>>
    THEN self.designation.s \o <<" ", "(">> \o self.name.s \o <<")">>
    ELSE self.designation.s

fullname(self) ==
    IF ~PyIs(self.name, PyNone)
    THEN self.designation.s \o <<" ", "(">> \o self.name.s \o <<")">>
    ELSE self.designation.s

neo_str(self) ==
    LET is_hazardous ==
            IF self.hazardous.b THEN <<"i", "s">>
            ELSE <<"i", "s", " ", "n", "o", "t">>
    IN  <<"N", "E", "O", " ">> \o fullname(self)
        \o <<" ", "h", "a", "s", " ", "d", "i", "a", "m", "e", "t", "e", "r",
             " ", "o", "f", " ">>
        \o float_fixed(self.diameter.f, 3)
        \o <<" ", "k", "m", " ", "a", "n", "d", " ">> \o is_hazardous
        \o <<" ", "p", "o", "t", "e", "n", "t", "i", "a", "l", "l", "y", " ",
             "h", "a", "z", "a", "r", "d", "o", "u", "s">>

neo_repr(self) ==
    <<"N", "e", "a", "r", "E", "a", "r", "t", "h", "O", "b", "j", "e", "c",
      "t", "(", "d", "e", "s", "i", "g", "n", "a", "t", "i", "o", "n", "=">>
    \o py_repr(self.designation)
    \o <<",", " ", "n", "a", "m", "e", "=">> \o py_repr(self.name)
    \o <<",", " ", "d", "i", "a", "m", "e", "t", "e", "r", "=">>
    \o float_fixed(self.diameter.f, 3)
    \o <<",", " ", "h", "a", "z", "a", "r", "d", "o", "u", "s", "=">>
    \o py_repr(self.hazardous) \o <<")">>

\* the flag written out as it is in both modes
neo_serialize_native(self, csv_output) ==
    [designation |-> self.designation,
     name |-> IF PyIs(self.name, PyNone) THEN PyStr(<<>>) ELSE self.name,
     diameter_km |->
        IF PyEq(self.diameter, PyFloat(NaN)) /\ csv_output THEN PyStr(<<>>)
        ELSE self.diameter,
     potentially_hazardous |-> self.hazardous]

\* the unknown diameter tested with math.isnan, in both modes
neo_serialize_isnan(self, csv_output) ==
    [designation |-> self.designation,
     name |-> IF PyIs(self.name, PyNone) THEN PyStr(<<>>) ELSE self.name,
     diameter_km |->
        IF IsNan(self.diameter.f) THEN PyStr(<<>>) ELSE self.diameter,
     potentially_hazardous |->
        IF PyIs(self.hazardous, PyBool(FALSE)) /\ csv_output
            THEN PyStr(<<"F", "a", "l", "s", "e">>)
        ELSE IF PyIs(self.hazardous, PyBool(TRUE)) /\ csv_output
            THEN PyStr(<<"T", "r", "u", "e">>)
        ELSE self.hazardous]

\* the unknown diameter tested with `!=`, which every float passes
neo_serialize_neq(self, csv_output) ==
    [designation |-> self.designation,
     name |-> IF PyIs(self.name, PyNone) THEN PyStr(<<>>) ELSE self.name,
     diameter_km |->
        IF ~PyEq(self.diameter, PyFloat(NaN)) /\ csv_output THEN PyStr(<<>>)
        ELSE self.diameter,
     potentially_hazardous |->
        IF PyIs(self.hazardous, PyBool(FALSE)) /\ csv_output
            THEN PyStr(<<"F", "a", "l", "s", "e">>)
        ELSE IF PyIs(self.hazardous, PyBool(TRUE)) /\ csv_output
            THEN PyStr(<<"T", "r", "u", "e">>)
        ELSE self.hazardous]

neo_serialize(self, csv_output) ==
    [designation |-> self.designation,
     name |-> IF PyIs(self.name, PyNone) THEN PyStr(<<>>) ELSE self.name,
     diameter_km |->
        IF PyEq(self.diameter, PyFloat(NaN)) /\ csv_output THEN PyStr(<<>>)
        ELSE self.diameter,
     potentially_hazardous |->
        IF PyIs(self.hazardous, PyBool(FALSE)) /\ csv_output
            THEN PyStr(<<"F", "a", "l", "s", "e">>)
        ELSE IF PyIs(self.hazardous, PyBool(TRUE)) /\ csv_output
            THEN PyStr(<<"T", "r", "u", "e">>)
        ELSE self.hazardous]

\* ------------------------------------------------------------------------
\* models.py: CloseApproach
\* ------------------------------------------------------------------------
\* the object CloseApproach.__init__ leaves behind; neo is the identity of
\* the referenced NearEarthObject, 0 for None
CaObject(time, distance, velocity, designation) ==
    [_designation |-> designation, time |-> cd_to_datetime(time.s).dt,
     distance |-> distance, velocity |-> velocity, neo |-> 0]

time_str(self) == datetime_to_str(self.time)

ca_repr(self, heap) ==
    <<"C", "l", "o", "s", "e", "A", "p", "p", "r", "o", "a", "c", "h", "(",
      "t", "i", "m", "e", "=">>
    \o py_repr(PyStr(time_str(self)))
    \o <<",", " ", "d", "i", "s", "t", "a", "n", "c", "e", "=">>
    \o float_fixed(self.distance.f, 2)
    \o <<",", " ", "v", "e", "l", "o", "c", "i", "t", "y", "=">>
    \o float_fixed(self.velocity.f, 2)
    \o <<",", " ", "n", "e", "o", "=">>
    \o (IF self.neo = 0 THEN py_repr(PyNone) ELSE neo_repr(heap[self.neo]))
    \o <<")">>

\* [ok |-> FALSE] stands for the AttributeError of None.fullname
ca_str(self, heap) ==
    IF self.neo = 0 THEN [ok |-> FALSE, s |-> <<>>]
    ELSE [ok |-> TRUE,
          s |-> <<"O", "n", " ">> \o time_str(self) \o <<",", " ", "\"">>
                \o fullname(heap[self.neo])
                \o <<"\"", " ", "a", "p", "p", "r", "o", "a", "c", "h", "e",
                     "s", " ", "E", "a", "r", "t", "h", " ", "a", "t", " ",
                     "a", " ", "d", "i", "s", "t", "a", "n", "c", "e", " ",
                     "o", "f", " ">>
                \o float_fixed(self.distance.f, 2)
                \o <<" ", "a", "u", " ", "a", "n", "d", " ", "a", " ", "v",
                     "e", "l", "o", "c", "i", "t", "y", " ", "o", "f", " ">>
                \o float_fixed(self.velocity.f, 2)
                \o <<" ", "k", "m", "/", "s", ".", " ">>]

ca_serialize(self) ==
    [datetime_utc |-> PyStr(datetime_to_str(self.time)),
     distance_au |-> self.distance,
     velocity_km_s |-> self.velocity]

\* ------------------------------------------------------------------------
\* extract.py
\* ------------------------------------------------------------------------
\* the hazard column tested for being non-empty instead of being 'Y'
neo_row_truthy(row) ==
    LET parsed == float_parse(row.diameter)
        designation == PyStr(row.pdes)
        name == IF row.name = <<>> THEN PyNone ELSE PyStr(row.name)
        diameter ==
            IF row.diameter = <<>> THEN PyFloat(NaN) ELSE PyFloat(parsed.f)
        hazardous == IF row.pha # <<>> THEN PyBool(TRUE) ELSE PyBool(FALSE)
    IN  [exc |-> IF row.diameter # <<>> /\ ~parsed.ok THEN "ValueError"
                 ELSE "none",
         designation |-> designation, name |-> name,
         diameter |-> diameter, hazardous |-> hazardous]

\* one pass of the loop of load_neos over a row of csv.DictReader: the
\* arguments handed to NearEarthObject; exc is the exception that ends it
neo_row(row) ==
    LET parsed == float_parse(row.diameter)
        designation == PyStr(row.pdes)
        name == IF row.name = <<>> THEN PyNone ELSE PyStr(row.name)
        diameter ==
            IF row.diameter = <<>> THEN PyFloat(NaN) ELSE PyFloat(parsed.f)
        hazardous == IF row.pha = <<"Y">> THEN PyBool(TRUE) ELSE PyBool(FALSE)
    IN  [exc |-> IF row.diameter # <<>> /\ ~parsed.ok THEN "ValueError"
                 ELSE IF ~NeoInitOk(designation, name, diameter, hazardous)
                    THEN "AssertionError"
                 ELSE "none",
         designation |-> designation, name |-> name,
         diameter |-> diameter, hazardous |-> hazardous]

\* the velocity read one position early, from row[6]
ca_row_shift(row) ==
    [exc |-> IF Len(row) < 5 THEN "IndexError"
             ELSE IF ~float_parse(row[5]).ok THEN "ValueError"
             ELSE IF Len(row) < 7 THEN "IndexError"
             ELSE IF ~float_parse(row[7]).ok THEN "ValueError"
             ELSE IF ~cd_to_datetime(row[4]).ok THEN "ValueError"
             ELSE "none",
     time |-> IF Len(row) >= 4 THEN PyStr(row[4]) ELSE PyNone,
     distance |->
        IF Len(row) >= 5 THEN PyFloat(float_parse(row[5]).f) ELSE PyNone,
     velocity |->
        IF Len(row) >= 7 THEN PyFloat(float_parse(row[7]).f) ELSE PyNone,
     designation |-> IF Len(row) >= 1 THEN PyStr(row[1]) ELSE PyNone]

\* one pass of the loop of load_approaches over a row of the 'data' array:
\* the arguments handed to CloseApproach (Python's row[k] is row[k + 1])
ca_row(row) ==
    [exc |-> IF Len(row) < 5 THEN "IndexError"
             ELSE IF ~float_parse(row[5]).ok THEN "ValueError"
             ELSE IF Len(row) < 8 THEN "IndexError"
             ELSE IF ~float_parse(row[8]).ok THEN "ValueError"
             ELSE IF ~cd_to_datetime(row[4]).ok THEN "ValueError"
             ELSE "none",
     time |-> IF Len(row) >= 4 THEN PyStr(row[4]) ELSE PyNone,
     distance |->
        IF Len(row) >= 5 THEN PyFloat(float_parse(row[5]).f) ELSE PyNone,
     velocity |->
        IF Len(row) >= 8 THEN PyFloat(float_parse(row[8]).f) ELSE PyNone,
     designation |-> IF Len(row) >= 1 THEN PyStr(row[1]) ELSE PyNone]

\* the exception of the first row that raises one, "none" when none does
RECURSIVE FirstExc(_, _)
FirstExc(passes, p) ==
    IF p > Len(passes) THEN "none"
    ELSE IF passes[p].exc # "none" THEN passes[p].exc
    ELSE FirstExc(passes, p + 1)

\* load_neos on the data rows of the file: the objects appended to neo_lst,
\* in order, each with a list of its own
load_neos(rows, nNeos, nLists) ==
    LET passes == [p \in 1..Len(rows) |-> neo_row(rows[p])]
    IN  [exc |-> FirstExc(passes, 1),
         objs |-> [p \in 1..Len(rows) |->
                    NeoObject(passes[p].designation, passes[p].name,
                              passes[p].diameter, passes[p].hazardous,
                              nLists + p)],
         ret |-> [p \in 1..Len(rows) |-> nNeos + p]]

\* load_approaches on the rows of reader['data']
load_approaches(rows, nCas) ==
    LET passes == [p \in 1..Len(rows) |-> ca_row(rows[p])]
    IN  [exc |-> FirstExc(passes, 1),
         objs |-> [p \in 1..Len(rows) |->
                    CaObject(passes[p].time, passes[p].distance,
                             passes[p].velocity, passes[p].designation)],
         ret |-> [p \in 1..Len(rows) |-> nCas + p]]

\* ------------------------------------------------------------------------
\* Inputs
\* ------------------------------------------------------------------------
S433 == <<"4", "3", "3">>
SEros == <<"E", "r", "o", "s">>
S38_5 == <<"3", "8", ".", "5">>
STime == <<"1", "9", "0", "0", "-", "0", "1", "-", "0", "1", " ",
           "1", "2", ":", "0", "0">>
STimeShort == <<"2", "0", "2", "0", "-", "0", "2", "-", "9", " ",
                "0", "4", ":", "3", "0">>
SBad == <<"x">>

ArgDesignations == {PyStr(S433), PyStr(<<>>)}
ArgNames == {PyNone, PyStr(SEros), PyStr(<<>>)}
ArgDiameters == {PyFloat(NaN), PyFloat(Fin(3850))}
ArgHazards == {PyBool(FALSE)}

\* the arguments of a constructor call: the values above, and the calls
\* that hand a value of another type to one argument, or to all four
NeoArgs ==
    (ArgDesignations \X ArgNames \X ArgDiameters \X ArgHazards)
    \cup ({PyInt(433), PyNone} \X {PyStr(SEros)} \X {PyFloat(Fin(3850))}
            \X {PyBool(FALSE)})
    \cup ({PyStr(S433)} \X {PyInt(0), PyBool(FALSE)} \X {PyFloat(Fin(3850))}
            \X {PyBool(FALSE)})
    \cup ({PyStr(S433)} \X {PyStr(SEros), PyNone}
            \X {PyInt(1), PyBool(TRUE), PyStr(S38_5), PyNone}
            \X {PyBool(FALSE)})
    \cup ({PyStr(S433)} \X {PyStr(SEros)} \X {PyFloat(Fin(3850))}
            \X {PyInt(1), PyStr(<<"Y">>), PyNone})
    \cup {<<PyInt(433), PyInt(0), PyInt(1), PyInt(1)>>}

\* the data rows of dataset 1: every name, diameter and hazard column for
\* designation 433, a row without a designation, a row whose diameter is
\* no numeral
NeoRows ==
    [pdes : {S433}, name : {SEros, <<>>},
     diameter : {S38_5, <<>>}, pha : {<<"Y">>, <<"N">>}]
    \cup {[pdes |-> <<>>, name |-> SEros, diameter |-> <<>>,
           pha |-> <<"y">>],
          [pdes |-> S433, name |-> SEros, diameter |-> SBad,
           pha |-> <<"N">>]}

ArgTimes == {PyStr(STime), PyStr(STimeShort), PyStr(SBad)}
ArgDistances == {PyFloat(Fin(15))}
ArgVelocities == {PyFloat(Fin(520))}
ArgKeys == {PyStr(S433), PyStr(<<>>)}

\* a row of dataset 2; the positions the loader ignores hold numerals of
\* their own
CaRow(des, time, dist, vel) ==
    <<des, <<"1">>, <<"2">>, time, dist, <<"5">>, <<"6">>, vel>>

S0_15 == <<"0", ".", "1", "5">>
S5_2 == <<"5", ".", "2">>

\* the rows of dataset 2: three that load, one with a time, one with a
\* distance and one with a velocity that does not parse, one that is short
CaRows ==
    {CaRow(S433, STime, S0_15, S5_2),
     CaRow(<<"9">>, STime, S0_15, S5_2),
     CaRow(S433, STimeShort, <<"1">>, S5_2),
     CaRow(S433, SBad, S0_15, S5_2),
     CaRow(S433, STime, SBad, S5_2),
     CaRow(S433, STime, S0_15, SBad),
     <<S433, <<"1">>, <<"2">>, STime, S0_15>>}

Min(a, b) == IF a < b THEN a ELSE b

\* narrower inputs, for the two halves together
FewNeoArgs ==
    {PyStr(S433), PyInt(433)} \X {PyNone, PyStr(SEros)}
    \X {PyFloat(NaN), PyFloat(Fin(3850))} \X {PyBool(FALSE)}
FewNeoRows ==
    [pdes : {S433}, name : {SEros}, diameter : {<<>>, SBad}, pha : {<<"Y">>}]
FewTimes == {PyStr(STime), PyStr(SBad)}
FewKeys == {PyStr(S433)}
FewCaRows ==
    {CaRow(S433, time, <<"1", ".", "5">>, <<"5", ".", "2">>) :
        time \in {STimeShort, SBad}}

SeqsUpTo(S, n) == UNION {[1..m -> S] : m \in 0..n}

\* ------------------------------------------------------------------------
\* State
\* ------------------------------------------------------------------------
VARIABLES
    neos,   \* the NearEarthObject objects, by identity
    lists,  \* the list objects behind NearEarthObject.approaches, by identity
    cas,    \* the CloseApproach objects, by identity
    last    \* the last call: what was called, with what, and what came back

vars == <<neos, lists, cas, last>>

Call(op, exc, args, ret) == [op |-> op, exc |-> exc, args |-> args, ret |-> ret]

Init ==
    /\ neos = <<>>
    /\ lists = <<>>
    /\ cas = <<>>
    /\ last = Call("none", "none", <<>>, <<>>)

\* NearEarthObject(designation, name, diameter, hazardous)
NewNeo(Args) ==
    \E a \in Args :
      LET designation == a[1]
          name == a[2]
          diameter == a[3]
          hazardous == a[4]
      IN
        /\ Len(neos) < MaxNeos
        /\ IF NeoInitOk(designation, name, diameter, hazardous)
           THEN /\ neos' = Append(neos, NeoObject(designation, name, diameter,
                                                  hazardous, Len(lists) + 1))
                /\ lists' = Append(lists, <<>>)
                /\ last' = Call("NearEarthObject", "none",
                                <<designation, name, diameter, hazardous>>,
                                Len(neos) + 1)
           ELSE /\ last' = Call("NearEarthObject", "AssertionError",
                                <<designation, name, diameter, hazardous>>, 0)
                /\ UNCHANGED <<neos, lists>>
        /\ UNCHANGED cas

\* load_neos(path) on a file with the data rows `rows`
LoadNeos(Rows) ==
    \E rows \in SeqsUpTo(Rows, Min(MaxRows, MaxNeos - Len(neos))) :
        /\ LET r == load_neos(rows, Len(neos), Len(lists))
           IN  IF r.exc = "none"
               THEN /\ neos' = neos \o r.objs
                    /\ lists' = lists \o [p \in 1..Len(rows) |-> <<>>]
                    /\ last' = Call("load_neos", "none", rows, r.ret)
               ELSE /\ last' = Call("load_neos", r.exc, rows, <<>>)
                    /\ UNCHANGED <<neos, lists>>
        /\ UNCHANGED cas

\* neo.fullname
Fullname ==
    \E n \in 1..Len(neos) :
        /\ last' = Call("fullname", "none", <<n>>, fullname(neos[n]))
        /\ UNCHANGED <<neos, lists, cas>>

\* str(neo)
NeoStr ==
    \E n \in 1..Len(neos) :
        /\ last' = Call("NearEarthObject.__str__", "none", <<n>>,
                        neo_str(neos[n]))
        /\ UNCHANGED <<neos, lists, cas>>

\* repr(neo)
NeoRepr ==
    \E n \in 1..Len(neos) :
        /\ last' = Call("NearEarthObject.__repr__", "none", <<n>>,
                        neo_repr(neos[n]))
        /\ UNCHANGED <<neos, lists, cas>>

\* neo.serialize(csv_output)
NeoSerialize ==
    \E n \in 1..Len(neos), csv_output \in BOOLEAN :
        /\ last' = Call("NearEarthObject.serialize", "none",
                        <<n, csv_output>>, neo_serialize(neos[n], csv_output))
        /\ UNCHANGED <<neos, lists, cas>>

\* CloseApproach(time, distance, velocity, designation)
NewCa(Ts, Fs) ==
    \E time \in Ts, distance \in ArgDistances,
       velocity \in ArgVelocities, designation \in Fs :
        /\ Len(cas) < MaxCas
        /\ IF cd_to_datetime(time.s).ok
           THEN /\ cas' = Append(cas, CaObject(time, distance, velocity,
                                               designation))
                /\ last' = Call("CloseApproach", "none",
                                <<time, distance, velocity, designation>>,
                                Len(cas) + 1)
           ELSE /\ last' = Call("CloseApproach", "ValueError",
                                <<time, distance, velocity, designation>>, 0)
                /\ UNCHANGED cas
        /\ UNCHANGED <<neos, lists>>

\* load_approaches(path) on a file whose 'data' array is `rows`
LoadApproaches(Rows) ==
    \E rows \in SeqsUpTo(Rows, Min(MaxRows, MaxCas - Len(cas))) :
        /\ LET r == load_approaches(rows, Len(cas))
           IN  IF r.exc = "none"
               THEN /\ cas' = cas \o r.objs
                    /\ last' = Call("load_approaches", "none", rows, r.ret)
               ELSE /\ last' = Call("load_approaches", r.exc, rows, <<>>)
                    /\ UNCHANGED cas
        /\ UNCHANGED <<neos, lists>>

\* approach.time_str
TimeStr ==
    \E c \in 1..Len(cas) :
        /\ last' = Call("time_str", "none", <<c>>, time_str(cas[c]))
        /\ UNCHANGED <<neos, lists, cas>>

\* str(approach)
CaStr ==
    \E c \in 1..Len(cas) :
        /\ LET r == ca_str(cas[c], neos)
           IN  last' = Call("CloseApproach.__str__",
                            IF r.ok THEN "none" ELSE "AttributeError",
                            <<c>>, r.s)
        /\ UNCHANGED <<neos, lists, cas>>

\* repr(approach)
CaRepr ==
    \E c \in 1..Len(cas) :
        /\ last' = Call("CloseApproach.__repr__", "none", <<c>>,
                        ca_repr(cas[c], neos))
        /\ UNCHANGED <<neos, lists, cas>>

\* approach.serialize()
CaSerialize ==
    \E c \in 1..Len(cas) :
        /\ last' = Call("CloseApproach.serialize", "none", <<c>>,
                        ca_serialize(cas[c]))
        /\ UNCHANGED <<neos, lists, cas>>

NeoReads ==
    \/ Fullname
    \/ NeoStr
    \/ NeoRepr
    \/ NeoSerialize

CaReads ==
    \/ TimeStr
    \/ CaStr
    \/ CaRepr
    \/ CaSerialize

NextNeo ==
    \/ NewNeo(NeoArgs)
    \/ LoadNeos(NeoRows)
    \/ NeoReads

NextCa ==
    \/ NewCa(ArgTimes, ArgKeys)
    \/ LoadApproaches(CaRows)
    \/ CaReads

Next ==
    \/ NewNeo(FewNeoArgs)
    \/ LoadNeos(FewNeoRows)
    \/ NeoReads
    \/ NewCa(FewTimes, FewKeys)
    \/ LoadApproaches(FewCaRows)
    \/ CaReads

\* one constructed NearEarthObject: designation 433, any name, any diameter
\* up to MaxHundredths hundredths of a kilometre (and 38.5), either flag
InitOne ==
    /\ \E name \in {PyNone, PyStr(SEros), PyStr(<<>>)},
          diameter \in {NaN, Fin(3850)}
                        \cup {Fin(h) : h \in 0..MaxHundredths},
          hazardous \in BOOLEAN :
            neos = <<NeoObject(PyStr(S433), name, PyFloat(diameter),
                               PyBool(hazardous), 1)>>
    /\ lists = << <<>> >>
    /\ cas = <<>>
    /\ last = Call("none", "none", <<>>, <<>>)

\* serialize alone, on every diameter of InitOne
SpecOne == InitOne /\ [][NeoSerialize]_vars

\* the near-Earth-object half, on the wide inputs
SpecNeo == Init /\ [][NextNeo]_vars

\* the close-approach half, on the wide inputs
SpecCa == Init /\ [][NextCa]_vars

\* the entity model and the loader together, on the narrow inputs
Spec == Init /\ [][Next]_vars

\* ------------------------------------------------------------------------
\* Properties
\* ------------------------------------------------------------------------
\* the cell the tabular writer puts in the file for a value of a row
csv_cell(x) ==
    IF x.t = "str" THEN x.s
    ELSE IF x.t = "float" THEN float_str(x.f)
    ELSE IF x.t = "bool" THEN py_repr(x)
    ELSE <<>>

\* the serialized mapping d read as a row of dataset 1
AsNeoRow(d) ==
    [pdes |-> csv_cell(d.designation), name |-> csv_cell(d.name),
     diameter |-> csv_cell(d.diameter_km),
     pha |-> csv_cell(d.potentially_hazardous)]

Serialized(csv_output) ==
    /\ last.op = "NearEarthObject.serialize"
    /\ last.args[2] = csv_output

Self == neos[last.args[1]]

\* C1: in tabular mode 'diameter_km' is the empty string when the diameter
\* is NaN, and the diameter itself when it is known
C1_TabularDiameter ==
    Serialized(TRUE) =>
        IF IsNan(Self.diameter.f) THEN last.ret.diameter_km = PyStr(<<>>)
        ELSE last.ret.diameter_km = Self.diameter

RoundTrips ==
    LET back == neo_row(AsNeoRow(last.ret))
    IN  /\ back.exc = "none"
        /\ back.name = Self.name
        /\ PyEq(back.diameter, Self.diameter)
        /\ back.hazardous = Self.hazardous

\* C2, as stated: a NearEarthObject with a present name, a known diameter
\* and hazardous = False, serialized in tabular mode and read back by the
\* rules of load_neos, has the same name, diameter and hazardous
C2_RoundTripPresentName ==
    (/\ Serialized(TRUE)
     /\ Self.name # PyNone
     /\ ~IsNan(Self.diameter.f)
     /\ Self.hazardous = PyBool(FALSE)) => RoundTrips

\* C2, amended: the same for a name that is present and not the empty string
C2_RoundTripNonEmptyName ==
    (/\ Serialized(TRUE)
     /\ Self.name # PyNone /\ Self.name.s # <<>>
     /\ ~IsNan(Self.diameter.f)
     /\ Self.hazardous = PyBool(FALSE)) => RoundTrips

C2_Witness ==
    /\ Serialized(TRUE)
    /\ Self.name = PyStr(SEros)
    /\ Self.diameter = PyFloat(Fin(3850))
    /\ Self.hazardous = PyBool(FALSE)
    /\ AsNeoRow(last.ret).diameter = S38_5

\* C3: every NearEarthObject that exists has a non-empty designation
C3_DesignationNonEmpty ==
    \A n \in 1..Len(neos) : neos[n].designation.s # <<>>

WellTyped(a) ==
    /\ a[1].t = "str"
    /\ a[2].t \in {"str", "NoneType"}
    /\ a[3].t = "float"
    /\ a[4].t = "bool"

\* C4: a construction with an argument of the wrong type (an int or bool
\* diameter included) ends in the assertion's error and creates no entity;
\* with the four types right it adds one entity holding the four values
C4_ConstructionTypes ==
    [][last'.op = "NearEarthObject" =>
        LET a == last'.args
        IN  IF WellTyped(a)
            THEN /\ last'.exc = "none"
                 /\ Len(neos') = Len(neos) + 1
                 /\ last'.ret = Len(neos')
                 /\ SubSeq(neos', 1, Len(neos)) = neos
                 /\ neos'[Len(neos')].designation = a[1]
                 /\ neos'[Len(neos')].name = a[2]
                 /\ neos'[Len(neos')].diameter = a[3]
                 /\ neos'[Len(neos')].hazardous = a[4]
            ELSE /\ last'.exc = "AssertionError"
                 /\ last'.ret = 0
                 /\ neos' = neos]_vars

C4_Witness ==
    /\ last.op = "NearEarthObject"
    /\ last.exc = "AssertionError"
    /\ last.args[3] = PyInt(1)
    /\ last.args[1].t = "str" /\ last.args[2].t = "str"
    /\ last.args[4].t = "bool"
    /\ Len(neos) = 1

\* C5: load_approaches returns one CloseApproach per row, in row order,
\* with _designation from position 0, time from position 3, distance and
\* velocity the floats of positions 4 and 7, and neo absent
C5_LoadApproaches ==
    (last.op = "load_approaches" /\ last.exc = "none") =>
        /\ Len(last.ret) = Len(last.args)
        /\ \A p \in 1..Len(last.args) :
            LET row == last.args[p]
                ca == cas[last.ret[p]]
            IN  /\ last.ret[p] = Len(cas) - Len(last.args) + p
                /\ ca._designation = PyStr(row[1])
                /\ cd_to_datetime(row[4]).ok
                /\ ca.time = cd_to_datetime(row[4]).dt
                /\ float_parse(row[5]).ok
                /\ ca.distance = PyFloat(float_parse(row[5]).f)
                /\ float_parse(row[8]).ok
                /\ ca.velocity = PyFloat(float_parse(row[8]).f)
                /\ ca.neo = 0

C5_Witness ==
    /\ last.op = "load_approaches" /\ last.exc = "none"
    /\ Len(last.args) = 2
    /\ last.args[1][1] # last.args[2][1]
    /\ cas[last.ret[1]]._designation = PyStr(<<"9">>)
    /\ cas[last.ret[2]]._designation = PyStr(S433)
    /\ cas[last.ret[1]].distance = PyFloat(Fin(15))
    /\ cas[last.ret[1]].velocity = PyFloat(Fin(520))
    /\ cas[last.ret[1]].time =
        [year |-> 1900, month |-> 1, day |-> 1, hour |-> 12, minute |-> 0]

\* C6: load_neos returns one NearEarthObject per data row, in row order,
\* repeated designations kept apart; designation is 'pdes', name is absent
\* for an empty 'name' and the column otherwise, diameter is NaN for an
\* empty 'diameter' and its float otherwise, hazardous iff 'pha' is 'Y'
C6_LoadNeos ==
    (last.op = "load_neos" /\ last.exc = "none") =>
        /\ Len(last.ret) = Len(last.args)
        /\ \A p \in 1..Len(last.args) :
            LET row == last.args[p]
                neo == neos[last.ret[p]]
            IN  /\ last.ret[p] = Len(neos) - Len(last.args) + p
                /\ neo.designation = PyStr(row.pdes)
                /\ neo.name =
                    (IF row.name = <<>> THEN PyNone ELSE PyStr(row.name))
                /\ IF row.diameter = <<>> THEN neo.diameter = PyFloat(NaN)
                   ELSE /\ float_parse(row.diameter).ok
                        /\ neo.diameter = PyFloat(float_parse(row.diameter).f)
                /\ neo.hazardous = PyBool(row.pha = <<"Y">>)

C6_Witness ==
    /\ last.op = "load_neos" /\ last.exc = "none"
    /\ Len(last.args) = 2
    /\ last.args[1].pdes = last.args[2].pdes
    /\ last.args[1].pha = <<"N">> /\ last.args[2].pha = <<"Y">>
    /\ last.args[1].diameter = S38_5 /\ last.args[2].diameter = <<>>
    /\ neos[1].diameter = PyFloat(Fin(3850))
    /\ neos[2].hazardous = PyBool(TRUE)

\* C7: 'potentially_hazardous' is the string "True" or "False" in tabular
\* mode and the boolean itself in structured mode
C7_HazardByMode ==
    /\ Serialized(TRUE) =>
        last.ret.potentially_hazardous =
            (IF Self.hazardous.b THEN PyStr(<<"T", "r", "u", "e">>)
             ELSE PyStr(<<"F", "a", "l", "s", "e">>))
    /\ Serialized(FALSE) =>
        last.ret.potentially_hazardous = PyBool(Self.hazardous.b)

C7_Witness ==
    /\ Serialized(TRUE)
    /\ Self.hazardous = PyBool(TRUE)
    /\ last.ret.potentially_hazardous.t = "str"

\* C8: in structured mode the mapping has the four keys, an absent name is
\* the empty string, and the diameter is the float itself, NaN included
C8_Structured ==
    Serialized(FALSE) =>
        /\ DOMAIN last.ret =
            {"designation", "name", "diameter_km", "potentially_hazardous"}
        /\ last.ret.designation = Self.designation
        /\ last.ret.name =
            (IF Self.name = PyNone THEN PyStr(<<>>) ELSE Self.name)
        /\ last.ret.diameter_km.t = "float"
        /\ last.ret.diameter_km = Self.diameter

C8_Witness ==
    /\ Serialized(FALSE)
    /\ Self.name = PyNone
    /\ IsNan(Self.diameter.f)
    /\ IsNan(last.ret.diameter_km.f)

\* C9: fullname is "designation (name)" when the name is present and the
\* designation when it is absent; a row with an empty name loads to an
\* entity whose fullname is its designation, and pdes=433, name=Eros to
\* one whose fullname is "433 (Eros)"
C9_Fullname ==
    /\ last.op = "fullname" =>
        LET self == neos[last.args[1]]
        IN  IF self.name # PyNone
            THEN last.ret = self.designation.s \o <<" ", "(">>
                            \o self.name.s \o <<")">>
            ELSE last.ret = self.designation.s
    /\ (last.op = "load_neos" /\ last.exc = "none") =>
        \A p \in 1..Len(last.args) :
            LET row == last.args[p]
                neo == neos[last.ret[p]]
            IN  /\ row.name = <<>> => fullname(neo) = row.pdes
                /\ (row.pdes = S433 /\ row.name = SEros) =>
                    fullname(neo) =
                        <<"4", "3", "3", " ", "(", "E", "r", "o", "s", ")">>

C9_Witness ==
    /\ last.op = "fullname"
    /\ neos[last.args[1]].name = PyStr(<<>>)
    /\ last.ret = <<"4", "3", "3", " ", "(", ")">>

Unlinked ==
    /\ \A n \in 1..Len(neos) :
        /\ neos[n].approaches \in 1..Len(lists)
        /\ lists[neos[n].approaches] = <<>>
    /\ \A n, m \in 1..Len(neos) :
        n # m => neos[n].approaches # neos[m].approaches
    /\ \A c \in 1..Len(cas) : cas[c].neo = 0

Kept ==
    /\ Len(neos') >= Len(neos)
    /\ SubSeq(neos', 1, Len(neos)) = neos
    /\ Len(cas') >= Len(cas)
    /\ SubSeq(cas', 1, Len(cas)) = cas
    /\ Len(lists') >= Len(lists)
    /\ SubSeq(lists', 1, Len(lists)) = lists

\* C10: every NearEarthObject has an empty approaches list of its own and
\* every CloseApproach has neo absent, at construction and after any
\* sequence of constructions, loads, fullname reads, renderings and
\* serialize calls; no call changes a field of an object that exists
C10_LinksUntouched == []Unlinked /\ [][Kept]_vars

C10_Witness ==
    /\ Len(neos) = 2 /\ Len(cas) = 2
    /\ last.op = "NearEarthObject.serialize"
    /\ neos[1].approaches # neos[2].approaches
    /\ lists = << <<>>, <<>> >>

====
